---- MODULE Spec2Model ----
(***************************************************************************)
(* A model of the CORA coastal flood-risk analyser: the inundation engine  *)
(* (cora/core/flood_model.py), the edge seed detector                      *)
(* (cora/core/geospatial_utils.py), the sea-wall applicator                *)
(* (cora/core/adaptation.py), the centroid point-in-mask test              *)
(* (cora/analysis/impact_assessment.py) and the wall-drawing / analysis    *)
(* handlers of the GUI (cora_gui.py).                                      *)
(*                                                                         *)
(* Arrays are records [shape |-> <<rows, cols>>, data |-> f] with f a      *)
(* function on the 0-based index pairs <<row, col>>, as a numpy array is a *)
(* shape and its cells.  Elevations and wall heights are whole metres.  A  *)
(* sea level is held in centimetres, the unit of the GUI's slider, so that *)
(* the levels 0.5 and 2.5 of the source's manual tests are the integers 50 *)
(* and 250; Leq compares an elevation with a level.                        *)
(***************************************************************************)
EXTENDS Integers, Sequences, FiniteSets, TLC

VARIABLES
    \* the harness of the pure functions: the array and the level given
    dem, sea_level, pc,
    \* the results of bathtub_inundation, connected_flood, is_coastal_edge
    bathtub_mask, connected_mask, coastal_edges,
    \* apply_sea_wall's other arguments and the array it returns
    wall_line, wall_height, modified_dem,
    \* count_flooded_buildings' arguments and the count it returns
    buildings_gdf, flood_mask, flooded_count,
    \* CoraGUI: self.dem_array, self.is_drawing_wall, self.sea_wall_points,
    \* self.sea_wall_geometry, the text of self.wall_height_input, the value
    \* of self.slr_slider, and what self.map_canvas shows
    dem_array, is_drawing_wall, sea_wall_points, sea_wall_geometry,
    wall_height_input, slr_slider, canvas,
    \* history: the raster that load_dem read into self.dem_array, and whether
    \* an analysis of it has applied a wall that changed a cell
    loaded_dem, wall_was_applied,
    \* CoraGUI: self.roads_gdf and the texts of the four result labels
    \* (self.buildings_gdf is buildings_gdf above)
    roads_gdf, flooded_buildings_label, flooded_critical_label,
    flooded_hospitals_pct_label, flooded_roads_label,
    \* history: whether the last _run_analysis ended in its except branch
    analysis_raised,
    \* binary_flood_fill's arguments and the array it returns
    fill_seeds, fill_area, filled_area,
    \* raster_to_vector_polygons' argument and result, and
    \* find_intersecting_features' first argument and result
    raster_array, flood_polygons_gdf, infra_gdf, intersecting_gdf,
    \* run_cora.main: the parsed arguments, and what the run printed, wrote
    \* and exited with
    cli_args, cli_result

inputVars == <<dem, sea_level, pc>>
floodVars == <<bathtub_mask, connected_mask, coastal_edges>>
wallVars == <<wall_line, wall_height, modified_dem>>
countVars == <<buildings_gdf, flood_mask, flooded_count>>
labelVars == <<flooded_buildings_label, flooded_critical_label,
               flooded_hospitals_pct_label, flooded_roads_label>>
impactVars == <<roads_gdf, labelVars, analysis_raised>>
guiVars == <<dem_array, is_drawing_wall, sea_wall_points, sea_wall_geometry,
             wall_height_input, slr_slider, canvas, loaded_dem, wall_was_applied,
             impactVars>>
fillVars == <<fill_seeds, fill_area, filled_area>>
vectorVars == <<raster_array, flood_polygons_gdf, infra_gdf, intersecting_gdf>>
cliVars == <<cli_args, cli_result>>
vars == <<inputVars, floodVars, wallVars, countVars, guiVars, fillVars, vectorVars, cliVars>>

\* Python's None, and a raised exception, as records: a value that is no array
None == [none |-> TRUE]
Raised(exception) == [raised |-> exception]
IsArray(x) == DOMAIN x = {"shape", "data"}

\* the harnesses of binary_flood_fill and of the vector functions, not run
FillIdle == fill_seeds = None /\ fill_area = None /\ filled_area = None
VectorIdle ==
    /\ raster_array = None /\ flood_polygons_gdf = None
    /\ infra_gdf = None /\ intersecting_gdf = None

\* the command line, not run
CliIdle == cli_args = None /\ cli_result = None

----------------------------------------------------------------------------
(* Bounds of the model.                                                    *)

\* grids of the exhaustive part have at most MaxDim rows and MaxDim columns ...
MaxDim == 3
\* ... and at most MaxCells cells
MaxCells == 9
\* and cells at sea level (0) or MaxElev metres above it
MaxElev == 1
\* a wall line has at most MaxWallPoints points ...
MaxWallPoints == 2
\* ... each in a cell of row and column -1..MaxWallCoord (-1: off the grid)
MaxWallCoord == 1
\* and a height of 0..MaxWallHeight metres
MaxWallHeight == 2
\* a building collection has at most MaxBuildings buildings
MaxBuildings == 2

----------------------------------------------------------------------------
(* Arrays.                                                                 *)

Cells(shape) == (0 .. shape[1] - 1) \X (0 .. shape[2] - 1)

\* np.array([[...], ...]): a literal given as a sequence of rows
FromRows(rows) ==
    [shape |-> <<Len(rows), Len(rows[1])>>,
     data  |-> [p \in Cells(<<Len(rows), Len(rows[1])>>) |-> rows[p[1] + 1][p[2] + 1]]]

\* A level is a Python float: a number of centimetres, or one of the three
\* values that are no finite number.  These are held as integers beyond the
\* range of every level and elevation in centimetres.
PosInf == 1000000
NegInf == -1000000
NaN == -1000001

IsFinite(level) == level \notin {PosInf, NegInf, NaN}

\* elevation <= level, the elevation in metres and the level in centimetres;
\* every comparison with NaN is false, +inf is above and -inf below every
\* elevation
Leq(elev, level) ==
    IF level = NaN THEN FALSE
    ELSE IF level = PosInf THEN TRUE
    ELSE IF level = NegInf THEN FALSE
    ELSE 100 * elev <= level

\* a Python index: a negative one counts from the end
Index(i, n) == IF i < 0 THEN n + i ELSE i

----------------------------------------------------------------------------
(* geospatial_utils.py                                                     *)

\* edge_mask[r, :] = True
SetRowTrue(mask, r) ==
    [mask EXCEPT !.data = [p \in DOMAIN mask.data |->
        IF p[1] = Index(r, mask.shape[1]) THEN TRUE ELSE mask.data[p]]]

\* edge_mask[:, c] = True
SetColTrue(mask, c) ==
    [mask EXCEPT !.data = [p \in DOMAIN mask.data |->
        IF p[2] = Index(c, mask.shape[2]) THEN TRUE ELSE mask.data[p]]]

\* the mutant: the last column is never set
is_coastal_edge_no_last_col(d) ==
    LET zeros == [shape |-> d.shape, data |-> [p \in Cells(d.shape) |-> FALSE]]
    IN  SetColTrue(SetRowTrue(SetRowTrue(zeros, 0), -1), 0)

\* an array of no rows has no row 0 for edge_mask[0, :], and one of no
\* columns no column 0 for edge_mask[:, 0]: numpy raises IndexError
is_coastal_edge(d) ==
    IF Len(d.shape) # 2
    THEN Raised("ValueError")
    ELSE IF d.shape[1] = 0 \/ d.shape[2] = 0
    THEN Raised("IndexError")
    ELSE LET zeros == [shape |-> d.shape, data |-> [p \in Cells(d.shape) |-> FALSE]]
         IN  SetColTrue(SetColTrue(SetRowTrue(SetRowTrue(zeros, 0), -1), 0), -1)

----------------------------------------------------------------------------
(* flood_model.py                                                          *)

\* the mutant: the comparison is turned round, the cells at or above the
\* level are marked
bathtub_inundation_inverted(d, level) ==
    [shape |-> d.shape,
     data  |-> [p \in DOMAIN d.data |-> IF 100 * d.data[p] >= level THEN 1 ELSE 0]]

\* the mutant: a strict comparison, a cell at exactly the level stays dry
bathtub_inundation_strict(d, level) ==
    [shape |-> d.shape,
     data  |-> [p \in Cells(d.shape) |-> IF 100 * d.data[p] < level THEN 1 ELSE 0]]

\* np.where(dem <= sea_level, 1, 0), on an array of any shape
bathtub_inundation(d, level) ==
    [shape |-> d.shape,
     data  |-> [p \in DOMAIN d.data |-> IF Leq(d.data[p], level) THEN 1 ELSE 0]]

\* the mutant: diagonal neighbours connect as well (8-connectivity)
Structure8 == {<<dr, dc>> : dr \in -1 .. 1, dc \in -1 .. 1}

\* scipy.ndimage.binary_propagation is called without a structure: the
\* default one, of connectivity 1 (the cell and its four edge neighbours)
Structure == {<<0, 0>>, <<-1, 0>>, <<1, 0>>, <<0, -1>>, <<0, 1>>}

\* one masked dilation: a cell of the mask becomes true when a cell of the
\* structure around it is true; a cell outside the mask keeps its value
binary_dilation(input, mask) ==
    [input EXCEPT !.data = [p \in DOMAIN input.data |->
        IF mask.data[p]
        THEN \E o \in Structure :
                /\ <<p[1] + o[1], p[2] + o[2]>> \in DOMAIN input.data
                /\ input.data[<<p[1] + o[1], p[2] + o[2]>>]
        ELSE input.data[p]]]

\* dilation repeated until the result no longer changes
RECURSIVE binary_propagation(_, _)
binary_propagation(input, mask) ==
    LET next == binary_dilation(input, mask)
    IN  IF next = input THEN input ELSE binary_propagation(next, mask)

\* the mutant: the fill is not limited to the potential flood area
binary_flood_fill_unmasked(seed_points, potential_flood_area) ==
    IF seed_points.shape # potential_flood_area.shape
    THEN Raised("ValueError")
    ELSE LET valid_seed_points ==
                [seed_points EXCEPT !.data = [p \in DOMAIN seed_points.data |->
                    seed_points.data[p] /\ potential_flood_area.data[p]]]
             everywhere ==
                [seed_points EXCEPT !.data = [p \in DOMAIN seed_points.data |-> TRUE]]
         IN  binary_propagation(valid_seed_points, everywhere)

\* the mutant: the seeds are returned as they are, nothing is propagated
binary_flood_fill_seeds_only(seed_points, potential_flood_area) ==
    IF seed_points.shape # potential_flood_area.shape
    THEN Raised("ValueError")
    ELSE [seed_points EXCEPT !.data = [p \in DOMAIN seed_points.data |->
            seed_points.data[p] /\ potential_flood_area.data[p]]]

\* the mutant: arrays of different shapes are not refused, the seeds are
\* returned
binary_flood_fill_unchecked(seed_points, potential_flood_area) ==
    IF seed_points.shape # potential_flood_area.shape
    THEN seed_points
    ELSE binary_propagation(
            [seed_points EXCEPT !.data = [p \in DOMAIN seed_points.data |->
                seed_points.data[p] /\ potential_flood_area.data[p]]],
            potential_flood_area)

binary_flood_fill(seed_points, potential_flood_area) ==
    IF seed_points.shape # potential_flood_area.shape
    THEN Raised("ValueError")
    ELSE LET valid_seed_points ==
                [seed_points EXCEPT !.data = [p \in DOMAIN seed_points.data |->
                    seed_points.data[p] /\ potential_flood_area.data[p]]]
         IN  binary_propagation(valid_seed_points, potential_flood_area)

\* the mutant: every potential cell is a seed, on the edge or not
connected_flood_unseeded(d, level) ==
    LET potential_flood_area ==
            [shape |-> d.shape, data |-> [p \in Cells(d.shape) |-> Leq(d.data[p], level)]]
    IN  binary_flood_fill(potential_flood_area, potential_flood_area)

connected_flood(d, level) ==
    LET potential_flood_area ==
            [shape |-> d.shape, data |-> [p \in Cells(d.shape) |-> Leq(d.data[p], level)]]
        edges == is_coastal_edge(d)
        ocean_seed_points ==
            [shape |-> d.shape,
             data  |-> [p \in Cells(d.shape) |->
                            potential_flood_area.data[p] /\ edges.data[p]]]
    IN  IF Len(d.shape) # 2
        THEN Raised("ValueError")
        ELSE IF "raised" \in DOMAIN edges
        THEN edges
        ELSE binary_flood_fill(ocean_seed_points, potential_flood_area)

\* the DEMs and levels of the module's manual tests (levels in centimetres)
sample_dem ==
    FromRows(<< <<5, 6, 7, 8, 9>>,
                <<3, 4, 5, 6, 7>>,
                <<1, 2, 3, 4, 5>>,
                <<0, 1, 2, 3, 4>> >>)

sample_dem_cf ==
    FromRows(<< <<5, 5, 5, 5, 5>>,
                <<5, 1, 1, 1, 5>>,
                <<5, 1, 0, 1, 5>>,
                <<5, 1, 1, 1, 5>>,
                <<0, 0, 0, 0, 0>> >>)

sample_dem_internal ==
    FromRows(<< <<10, 10, 10, 10, 10>>,
                <<10, 1, 1, 1, 10>>,
                <<10, 1, 0, 1, 10>>,
                <<10, 1, 1, 1, 10>>,
                <<10, 2, 2, 2, 10>> >>)

sample_dem_high_edges ==
    FromRows(<< <<10, 10, 10>>,
                <<10, 0, 10>>,
                <<10, 10, 10>> >>)

SampleDems == {sample_dem, sample_dem_cf, sample_dem_internal, sample_dem_high_edges}

\* 2.5, 0.0, 10.0, -1.0 (bathtub tests); 0.5, 2.0, 1.0 (connected tests)
SampleLevels == {250, 0, 1000, -100, 50, 200, 100}

----------------------------------------------------------------------------
(* adaptation.py                                                           *)
(*                                                                         *)
(* A wall is a record [kind, coords]: coords is the sequence of its        *)
(* points, each given as the cell <<row, col>> that the inverse transform  *)
(* maps it to (a cell with a negative index, or one beyond the shape, lies *)
(* off the grid), and kind tells a shapely LineString from a plain list of *)
(* points.  A LineString has no points (the empty LineString) or at least  *)
(* two: shapely builds none of one point.                                  *)

LineString(points) == [kind |-> "LineString", coords |-> points]
PointList(points) == [kind |-> "list", coords |-> points]

Abs(x) == IF x < 0 THEN -x ELSE x
Max(a, b) == IF a >= b THEN a ELSE b

\* a / n rounded to the nearest integer, n > 0
RoundDiv(a, n) == (2 * a + n) \div (2 * n)

\* the cells a segment is burnt into: one per step along its longer axis
SegmentCells(p, q) ==
    LET dr == q[1] - p[1]
        dc == q[2] - p[2]
        n  == Max(Abs(dr), Abs(dc))
    IN  IF n = 0
        THEN {p}
        ELSE {<<p[1] + RoundDiv(i * dr, n), p[2] + RoundDiv(i * dc, n)>> : i \in 0 .. n}

LineCells(line) ==
    UNION {SegmentCells(line.coords[i], line.coords[i + 1]) :
                i \in 1 .. Len(line.coords) - 1}

\* rasterio.features.rasterize burns the line into an array of out_shape,
\* and np.argwhere lists the burnt cells; given no valid geometry (here the
\* empty LineString) rasterize raises ValueError
rasterize_line(line, dem_shape) ==
    IF line.kind # "LineString"
    THEN Raised("TypeError")
    ELSE IF Len(line.coords) < 2
    THEN Raised("ValueError")
    ELSE [pixel_coords |-> LineCells(line) \cap Cells(dem_shape)]

\* the mutant: the wall height is written over the elevation, higher or not
apply_sea_wall_overwrite(d, line, height) ==
    LET wall_pixels == rasterize_line(line, d.shape)
    IN  IF "raised" \in DOMAIN wall_pixels
        THEN [dem |-> d, returned |-> wall_pixels]
        ELSE [dem |-> d,
              returned |-> [d EXCEPT !.data = [p \in DOMAIN d.data |->
                    IF p \in wall_pixels.pixel_coords THEN height ELSE d.data[p]]]]

\* the mutant: no copy is taken, the wall is written into the array given
apply_sea_wall_in_place(d, line, height) ==
    LET wall_pixels == rasterize_line(line, d.shape)
        written == [d EXCEPT !.data = [p \in DOMAIN d.data |->
                        IF p \in wall_pixels.pixel_coords
                        THEN Max(d.data[p], height)
                        ELSE d.data[p]]]
    IN  IF "raised" \in DOMAIN wall_pixels
        THEN [dem |-> d, returned |-> wall_pixels]
        ELSE [dem |-> written, returned |-> written]

\* apply_sea_wall: .dem is the array given as the call leaves it, .returned
\* the array returned, or the exception raised
apply_sea_wall(d, line, height) ==
    LET modified == d       \* dem.copy(): another array, of the same cells
        wall_pixels == rasterize_line(line, d.shape)
    IN  IF "raised" \in DOMAIN wall_pixels
        THEN [dem |-> d, returned |-> wall_pixels]
        ELSE IF wall_pixels.pixel_coords # {}
        THEN [dem |-> d,
              returned |-> [modified EXCEPT !.data = [p \in DOMAIN modified.data |->
                    IF p \in wall_pixels.pixel_coords
                    THEN Max(modified.data[p], height)
                    ELSE modified.data[p]]]]
        ELSE [dem |-> d, returned |-> modified]

----------------------------------------------------------------------------
(* impact_assessment.py                                                    *)
(*                                                                         *)
(* A building collection is a record [crs, geometry]: geometry is the      *)
(* sequence of the buildings' geometries, each a record [is_empty,         *)
(* centroid], the centroid given as its image <<col, row>> under the       *)
(* inverse transform (~dem_transform * (x, y)), in TENTHS of a cell: the   *)
(* image (-0.4, 1.5) is <<-4, 15>>.                                        *)

\* a coordinate reference system, by its EPSG code
CRS(code) == [epsg |-> code]

\* OSM data comes in WGS 84; the rasters loaded are in UTM 17N
OsmCrs == CRS(4326)
DemCrs == CRS(32617)

\* Python's round() of t tenths: to the nearest integer, a half to the even one
PyRound(t) ==
    LET whole == t \div 10
        frac  == t - 10 * whole
    IN  IF frac < 5 THEN whole
        ELSE IF frac > 5 THEN whole + 1
        ELSE IF whole % 2 = 0 THEN whole ELSE whole + 1

\* the loop over buildings_gdf.geometry, from the i-th geometry on
RECURSIVE CountFrom(_, _, _)
CountFrom(geometry, mask, i) ==
    IF i > Len(geometry)
    THEN 0
    ELSE LET geom == geometry[i]
             row == PyRound(geom.centroid[2])
             col == PyRound(geom.centroid[1])
             hit == /\ ~geom.is_empty
                    /\ 0 <= row /\ row < mask.shape[1]
                    /\ 0 <= col /\ col < mask.shape[2]
                    /\ mask.data[<<row, col>>]
         IN  (IF hit THEN 1 ELSE 0) + CountFrom(geometry, mask, i + 1)

count_flooded_buildings(gdf, mask) ==
    IF gdf = None \/ Len(gdf.geometry) = 0
    THEN 0
    ELSE IF gdf.crs = None
    THEN Raised("ValueError")
    ELSE CountFrom(gdf.geometry, mask, 1)

(* A GeoDataFrame in general is a record of its crs and its columns, each  *)
(* column the sequence of its values by row: geometry, and whichever of     *)
(* amenity, is_critical and value the frame has.  Its geometries are        *)
(* records [type, is_empty, centroid, cells]: cells is the set of raster    *)
(* cells that the geometry shares an area (a polygon) or a length (a line)  *)
(* with, a line running one unit of length through each of its cells.  A    *)
(* reprojection (to_crs) moves the coordinates and leaves the cells.        *)

Columns(gdf) == DOMAIN gdf \ {"crs"}

\* pandas' missing value (None / NaN) in a column of strings
Missing == "<missing>"

\* gdf[keep]: the rows at the indices given, in their order
SelectRows(gdf, indices) ==
    [c \in DOMAIN gdf |->
        IF c = "crs" THEN gdf.crs ELSE [k \in 1 .. Len(indices) |-> gdf[c][indices[k]]]]

\* the indices of the rows whose column c has a value in the set given
RowsWhere(gdf, c, values) ==
    SelectSeq([i \in 1 .. Len(gdf.geometry) |-> i], LAMBDA i : gdf[c][i] \in values)

Polygon(cells) == [type |-> "Polygon", is_empty |-> cells = {}, cells |-> cells]

\* two cells share an edge
Adjacent4(p, q) ==
    \/ p[1] = q[1] /\ Abs(p[2] - q[2]) = 1
    \/ p[2] = q[2] /\ Abs(p[1] - q[1]) = 1

\* two cells share an edge or a corner
Adjacent8(p, q) == p # q /\ Abs(p[1] - q[1]) <= 1 /\ Abs(p[2] - q[2]) <= 1

\* the cells of T that region reaches over shared edges
RECURSIVE Grow(_, _)
Grow(region, T) ==
    LET next == region \cup {q \in T : \E p \in region : Adjacent4(p, q)}
    IN  IF next = region THEN region ELSE Grow(next, T)

\* the mutant's regions: reached over shared edges or corners
RECURSIVE Grow8(_, _)
Grow8(region, T) ==
    LET next == region \cup {q \in T : \E p \in region : Adjacent8(p, q)}
    IN  IF next = region THEN region ELSE Grow8(next, T)

\* the place of a cell in the row-by-row scan of the raster
ScanRank(p, shape) == p[1] * shape[2] + p[2]

\* the regions in the order the scan first meets them
RECURSIVE InScanOrder(_, _)
InScanOrder(regions, shape) ==
    IF regions = {}
    THEN <<>>
    ELSE LET first == CHOOSE r \in regions : \E p \in r :
                        \A r2 \in regions : \A q \in r2 :
                            ScanRank(p, shape) <= ScanRank(q, shape)
         IN  <<first>> \o InScanOrder(regions \ {first}, shape)

\* the mutant: rasterio.features.shapes called with connectivity 8
raster_to_vector_polygons_conn8(raster) ==
    LET T == {p \in DOMAIN raster.data : raster.data[p]}
        shapes_gen == InScanOrder({Grow8({p}, T) : p \in T}, raster.shape)
    IN  [crs      |-> None,
         geometry |-> [k \in 1 .. Len(shapes_gen) |-> Polygon(shapes_gen[k])],
         value    |-> [k \in 1 .. Len(shapes_gen) |-> 1]]

\* rasterio.features.shapes yields one (polygon, value) per region of
\* edge-connected cells of the mask (its default connectivity is 4), here
\* all of value 1; the frame built of them has no crs
raster_to_vector_polygons(raster) ==
    LET T == {p \in DOMAIN raster.data : raster.data[p]}
        shapes_gen == InScanOrder({Grow({p}, T) : p \in T}, raster.shape)
    IN  [crs      |-> None,
         geometry |-> [k \in 1 .. Len(shapes_gen) |-> Polygon(shapes_gen[k])],
         value    |-> [k \in 1 .. Len(shapes_gen) |-> 1]]

\* gdf.set_crs(crs, inplace=True)
set_crs(gdf, crs) == [gdf EXCEPT !.crs = crs]

\* gpd.GeoDataFrame(columns=...): no row, no crs
EmptyFrame(columns) == [c \in columns \cup {"crs"} |-> IF c = "crs" THEN None ELSE <<>>]

\* gpd.overlay(infra, polygons, how='intersection'): one row for every pair
\* of a row of infra and a row of polygons whose geometries share an area
\* (or, for a line, a length), holding the shared part and the attributes
\* of both
overlay(infra, polygons) ==
    LET n == Len(infra.geometry)
        m == Len(polygons.geometry)
        pairs == SelectSeq([k \in 1 .. n * m |-> <<((k - 1) \div m) + 1, ((k - 1) % m) + 1>>],
                    LAMBDA pr : infra.geometry[pr[1]].cells
                                    \cap polygons.geometry[pr[2]].cells # {})
    IN  [c \in DOMAIN infra \cup DOMAIN polygons |->
            IF c = "crs" THEN infra.crs
            ELSE IF c = "geometry"
            THEN [k \in 1 .. Len(pairs) |->
                    [type     |-> infra.geometry[pairs[k][1]].type,
                     is_empty |-> FALSE,
                     cells    |-> infra.geometry[pairs[k][1]].cells
                                    \cap polygons.geometry[pairs[k][2]].cells]]
            ELSE IF c \in DOMAIN infra
            THEN [k \in 1 .. Len(pairs) |-> infra[c][pairs[k][1]]]
            ELSE [k \in 1 .. Len(pairs) |-> polygons[c][pairs[k][2]]]]

\* find_intersecting_features; with infra_gdf None the early return reads
\* infra_gdf.columns, an AttributeError; to_crs raises ValueError when
\* either frame has no crs and the other has one
find_intersecting_features(infra, polygons) ==
    IF infra = None
    THEN Raised("AttributeError")
    ELSE IF Len(infra.geometry) = 0 \/ polygons = None
    THEN EmptyFrame(Columns(infra))
    ELSE IF Len(polygons.geometry) = 0
    THEN EmptyFrame(Columns(infra))
    ELSE IF infra.crs # polygons.crs /\ (infra.crs = None \/ polygons.crs = None)
    THEN Raised("ValueError")
    ELSE overlay(infra, polygons)

----------------------------------------------------------------------------
(* osm_handler.py                                                          *)

critical_amenities == {"hospital", "school", "fire_station", "police", "emergency"}

\* mark_critical_infrastructure: None and an empty frame are returned as
\* they are; otherwise an amenity column of missing values is added if
\* there is none, and is_critical tells the rows of a critical amenity
mark_critical_infrastructure(gdf) ==
    IF gdf = None THEN gdf
    ELSE IF Len(gdf.geometry) = 0 THEN gdf
    ELSE LET amenity == IF "amenity" \in DOMAIN gdf
                        THEN gdf.amenity
                        ELSE [i \in 1 .. Len(gdf.geometry) |-> Missing]
         IN  [c \in DOMAIN gdf \cup {"amenity", "is_critical"} |->
                IF c = "amenity" THEN amenity
                ELSE IF c = "is_critical"
                THEN [i \in 1 .. Len(gdf.geometry) |-> amenity[i] \in critical_amenities]
                ELSE gdf[c]]

----------------------------------------------------------------------------
(* cora_gui.py                                                             *)

\* A label's text is a record of what it was formatted from:
\* "Flooded Buildings: N/A" is NA, "Flooded Buildings: 2" is CountText(2)
NA == [text |-> "N/A"]
CountText(n) == [count |-> n]

\* CoraGUI.__init__ and initUI: no DEM, no buildings, no roads, no wall, the
\* wall height field at "3.0", the slider at 50 cm, the canvas on its
\* placeholder, the four result labels at "N/A"
GuiConstructed ==
    /\ dem_array = None
    /\ is_drawing_wall = FALSE
    /\ sea_wall_points = <<>>
    /\ sea_wall_geometry = None
    /\ wall_height_input = "3.0"
    /\ slr_slider = 50
    /\ canvas = [shown |-> "placeholder"]
    /\ loaded_dem = None
    /\ wall_was_applied = FALSE
    /\ roads_gdf = None
    /\ flooded_buildings_label = NA
    /\ flooded_critical_label = NA
    /\ flooded_hospitals_pct_label = NA
    /\ flooded_roads_label = NA
    /\ analysis_raised = FALSE

\* float(text) of the wall height field: whole metres, or ValueError
ParseFloat(text) ==
    CASE text = "3.0" -> [float |-> 3]
      [] text = "1"   -> [float |-> 1]
      [] OTHER        -> Raised("ValueError")

\* _run_analysis's wall height: the field's number, or 3.0 when float() raises
AnalysisWallHeight(text) ==
    IF "raised" \in DOMAIN ParseFloat(text) THEN 3 ELSE ParseFloat(text).float

\* _run_analysis down to the flood mask, for a loaded DEM: .dem_array is
\* self.dem_array as the run leaves it, .walled whether apply_sea_wall was
\* called, .flood_mask the mask computed or the exception caught
RunAnalysisOn(array, points, geometry, text, slider) ==
    LET walled == geometry # None /\ Len(points) >= 2
        call == apply_sea_wall(array, geometry, AnalysisWallHeight(text))
        dem_to_analyze == IF walled THEN call.returned ELSE array
    IN  [dem_array  |-> IF walled THEN call.dem ELSE array,
         walled     |-> walled,
         changed    |-> walled /\ dem_to_analyze # array,
         flood_mask |-> IF IsArray(dem_to_analyze)
                        THEN connected_flood(dem_to_analyze, slider)
                        ELSE dem_to_analyze]

\* "Flooded Hospitals: n/t (p%)", p = n / t * 100 to one decimal, held in
\* tenths of a percent (no n / t within the bounds falls on half a tenth)
HospitalsText(n, t) == [flooded |-> n, total |-> t, pct |-> RoundDiv(1000 * n, t)]

\* the literal "Flooded Hospitals: 0/0 (0.0%)"
ZeroHospitalsText == [flooded |-> 0, total |-> 0, pct |-> 0]

\* the side of a raster cell, in metres
CellMetres == 30

\* "Flooded Roads (km): x" and "Flooded Roads: x (map units)", x to two
\* decimals: a length of m metres is shown in hundredths of a kilometre
RoadsText(unit, m) == [unit |-> unit, hundredths |-> PyRound(m)]

\* the rows of a frame whose geometry is of one of the types given
RowsOfType(gdf, types) ==
    SelectSeq([i \in 1 .. Len(gdf.geometry) |-> i],
              LAMBDA i : gdf.geometry[i].type \in types)

\* geometry.length.sum(), in metres
RECURSIVE LengthSum(_, _)
LengthSum(geometry, i) ==
    IF i > Len(geometry)
    THEN 0
    ELSE CellMetres * Cardinality(geometry[i].cells) + LengthSum(geometry, i + 1)

\* find_intersecting_features gets as far as gpd.overlay
OverlayCalled(infra, polygons) ==
    /\ infra # None /\ polygons # None
    /\ Len(infra.geometry) > 0 /\ Len(polygons.geometry) > 0

\* The four labels are held in a record [buildings, critical, hospitals,
\* roads].  A stage of _run_analysis gives the labels as it leaves them
\* and whether it raised; fault names the stage whose gpd.overlay, if
\* called, raises (as GEOS does on an invalid geometry).

\* the mutant: the critical label is set to the count of all flooded rows
BuildingsStage_all_critical(labels, buildings, polygons, fault) ==
    IF buildings = None
    THEN [labels |-> [labels EXCEPT !.buildings = NA], raised |-> FALSE]
    ELSE LET poly_buildings_gdf ==
                SelectRows(buildings, RowsOfType(buildings, {"Polygon", "MultiPolygon"}))
             flooded_buildings_gdf ==
                IF fault = "buildings" /\ OverlayCalled(poly_buildings_gdf, polygons)
                THEN Raised("GEOSException")
                ELSE find_intersecting_features(poly_buildings_gdf, polygons)
         IN  IF Len(poly_buildings_gdf.geometry) = 0
             THEN [labels |-> [labels EXCEPT !.buildings = NA], raised |-> FALSE]
             ELSE IF "raised" \in DOMAIN flooded_buildings_gdf
             THEN [labels |-> labels, raised |-> TRUE]
             ELSE [labels |->
                    [buildings |-> CountText(Len(flooded_buildings_gdf.geometry)),
                     critical  |-> CountText(Len(flooded_buildings_gdf.geometry)),
                     hospitals |->
                        IF Len(RowsWhere(buildings, "amenity", {"hospital"})) > 0
                        THEN HospitalsText(
                                Len(RowsWhere(flooded_buildings_gdf, "amenity", {"hospital"})),
                                Len(RowsWhere(buildings, "amenity", {"hospital"})))
                        ELSE ZeroHospitalsText,
                     roads     |-> labels.roads],
                   raised |-> FALSE]

\* _run_analysis, the buildings: lines 422-459
BuildingsStage(labels, buildings, polygons, fault) ==
    IF buildings = None
    THEN [labels |-> [labels EXCEPT !.buildings = NA], raised |-> FALSE]
    ELSE IF Len(buildings.geometry) = 0
    THEN [labels |-> [labels EXCEPT !.buildings = NA], raised |-> FALSE]
    ELSE LET poly_buildings_gdf ==
                SelectRows(buildings, RowsOfType(buildings, {"Polygon", "MultiPolygon"}))
             flooded_buildings_gdf ==
                IF fault = "buildings" /\ OverlayCalled(poly_buildings_gdf, polygons)
                THEN Raised("GEOSException")
                ELSE find_intersecting_features(poly_buildings_gdf, polygons)
             flooded_critical_gdf ==
                IF "is_critical" \in Columns(flooded_buildings_gdf)
                THEN SelectRows(flooded_buildings_gdf,
                                RowsWhere(flooded_buildings_gdf, "is_critical", {TRUE}))
                ELSE SelectRows(flooded_buildings_gdf, <<>>)
             n_total_hospitals == Len(RowsWhere(buildings, "amenity", {"hospital"}))
             n_flooded_hospitals ==
                Len(RowsWhere(flooded_buildings_gdf, "amenity", {"hospital"}))
         IN  IF Len(poly_buildings_gdf.geometry) = 0
             THEN [labels |-> [labels EXCEPT !.buildings = NA], raised |-> FALSE]
             ELSE IF "raised" \in DOMAIN flooded_buildings_gdf
             THEN [labels |-> labels, raised |-> TRUE]
             ELSE [labels |->
                    [buildings |-> CountText(Len(flooded_buildings_gdf.geometry)),
                     critical  |-> CountText(Len(flooded_critical_gdf.geometry)),
                     hospitals |->
                        IF "amenity" \in Columns(buildings)
                        THEN IF n_total_hospitals > 0
                             THEN HospitalsText(n_flooded_hospitals, n_total_hospitals)
                             ELSE ZeroHospitalsText
                        ELSE NA,
                     roads     |-> labels.roads],
                   raised |-> FALSE]

\* the mutant: roads that touch no flood polygon leave the label as it was
RoadsStage_skip_empty(labels, roads, polygons, fault) ==
    IF roads = None
    THEN [labels |-> [labels EXCEPT !.roads = NA], raised |-> FALSE]
    ELSE LET line_roads_gdf ==
                SelectRows(roads, RowsOfType(roads, {"LineString", "MultiLineString"}))
             flooded_roads_gdf ==
                IF fault = "roads" /\ OverlayCalled(line_roads_gdf, polygons)
                THEN Raised("GEOSException")
                ELSE find_intersecting_features(line_roads_gdf, polygons)
         IN  IF Len(line_roads_gdf.geometry) = 0
             THEN [labels |-> [labels EXCEPT !.roads = NA], raised |-> FALSE]
             ELSE IF "raised" \in DOMAIN flooded_roads_gdf
             THEN [labels |-> labels, raised |-> TRUE]
             ELSE IF Len(flooded_roads_gdf.geometry) = 0
             THEN [labels |-> labels, raised |-> FALSE]
             ELSE [labels |-> [labels EXCEPT !.roads =
                        RoadsText("km", LengthSum(flooded_roads_gdf.geometry, 1))],
                   raised |-> FALSE]

\* _run_analysis, the roads: lines 461-493.  The length is projected to UTM
\* around the centroid of the flooded roads; with no flooded road there is
\* no centroid to look a UTM zone up for, the inner try ends in its except
\* branch and the sum of no lengths is shown in map units
RoadsStage(labels, roads, polygons, fault) ==
    IF roads = None
    THEN [labels |-> [labels EXCEPT !.roads = NA], raised |-> FALSE]
    ELSE IF Len(roads.geometry) = 0
    THEN [labels |-> [labels EXCEPT !.roads = NA], raised |-> FALSE]
    ELSE LET line_roads_gdf ==
                SelectRows(roads, RowsOfType(roads, {"LineString", "MultiLineString"}))
             flooded_roads_gdf ==
                IF fault = "roads" /\ OverlayCalled(line_roads_gdf, polygons)
                THEN Raised("GEOSException")
                ELSE find_intersecting_features(line_roads_gdf, polygons)
         IN  IF Len(line_roads_gdf.geometry) = 0
             THEN [labels |-> [labels EXCEPT !.roads = NA], raised |-> FALSE]
             ELSE IF "raised" \in DOMAIN flooded_roads_gdf
             THEN [labels |-> labels, raised |-> TRUE]
             ELSE IF Len(flooded_roads_gdf.geometry) = 0
             THEN [labels |-> [labels EXCEPT !.roads = RoadsText("map units", 0)],
                   raised |-> FALSE]
             ELSE [labels |-> [labels EXCEPT !.roads =
                        RoadsText("km", LengthSum(flooded_roads_gdf.geometry, 1))],
                   raised |-> FALSE]

\* _run_analysis from the flood mask on: lines 418-506.  .labels are the
\* labels as the run leaves them, .plotted whether plot_flood_mask was
\* reached and drew the mask, .raised whether the run ended in its except
ImpactStages(labels, mask, buildings, roads, fault) ==
    LET flood_polygons == set_crs(raster_to_vector_polygons(mask), DemCrs)
        b == BuildingsStage(labels, buildings, flood_polygons, fault)
        r == RoadsStage(b.labels, roads, flood_polygons, fault)
    IN  IF b.raised
        THEN [labels |-> b.labels, plotted |-> FALSE, raised |-> TRUE]
        ELSE IF r.raised
        THEN [labels |-> r.labels, plotted |-> FALSE, raised |-> TRUE]
        ELSE [labels |-> r.labels, plotted |-> TRUE, raised |-> FALSE]

\* where a library call may raise during a run
Faults == {"none", "buildings", "roads"}

----------------------------------------------------------------------------
(* The inputs of the exhaustive part: every grid within the bounds.        *)

Shapes == {s \in (1 .. MaxDim) \X (1 .. MaxDim) : s[1] * s[2] <= MaxCells}

SmallDems ==
    UNION {{[shape |-> s, data |-> f] : f \in [Cells(s) -> {0, MaxElev}]} : s \in Shapes}

\* the levels at the low cells, half a metre below the high cells, at them,
\* and half a metre above them
SmallLevels == {0, 100 * MaxElev - 50, 100 * MaxElev, 100 * MaxElev + 50}

----------------------------------------------------------------------------
(* The harness of the pure functions: the manual tests of flood_model.py   *)
(* and geospatial_utils.py, run on every input.                            *)

FloodInit ==
    /\ \/ dem \in SmallDems /\ sea_level \in SmallLevels
       \/ dem \in SampleDems /\ sea_level \in SampleLevels
    /\ bathtub_mask = None
    /\ connected_mask = None
    /\ coastal_edges = None
    /\ pc = "start"
    /\ wall_line = LineString(<<>>) /\ wall_height = 0 /\ modified_dem = None
    /\ buildings_gdf = None /\ flood_mask = None /\ flooded_count = None
    /\ CliIdle /\ GuiConstructed /\ FillIdle /\ VectorIdle

BathtubInundation ==
    /\ pc = "start"
    /\ bathtub_mask' = bathtub_inundation(dem, sea_level)
    /\ pc' = "bathtub"
    /\ UNCHANGED <<dem, sea_level, connected_mask, coastal_edges, wallVars, countVars,
                   guiVars, cliVars, fillVars, vectorVars>>

ConnectedFlood ==
    /\ pc = "bathtub"
    /\ connected_mask' = connected_flood(dem, sea_level)
    /\ pc' = "connected"
    /\ UNCHANGED <<dem, sea_level, bathtub_mask, coastal_edges, wallVars, countVars,
                   guiVars, cliVars, fillVars, vectorVars>>

IsCoastalEdge ==
    /\ pc = "connected"
    /\ coastal_edges' = is_coastal_edge(dem)
    /\ pc' = "done"
    /\ UNCHANGED <<dem, sea_level, bathtub_mask, connected_mask, wallVars, countVars,
                   guiVars, cliVars, fillVars, vectorVars>>

FloodNext == BathtubInundation \/ ConnectedFlood \/ IsCoastalEdge

SpecFlood == FloodInit /\ [][FloodNext]_vars

----------------------------------------------------------------------------
(* The same harness on inputs that are no finite level or no non-empty     *)
(* 2-dimensional grid.                                                     *)

\* np.array([...]): a 1-dimensional array
Array1D(values) ==
    [shape |-> <<Len(values)>>,
     data  |-> [p \in {<<i>> : i \in 0 .. Len(values) - 1} |-> values[p[1] + 1]]]

\* np.zeros(shape): an array of any number of dimensions, all cells 0
Zeros(shape, indices) == [shape |-> shape, data |-> [p \in indices |-> 0]]

\* arrays of 0, 1 and 3 dimensions, and 2-dimensional arrays with a
\* dimension of size 0
MalformedDems ==
    {Zeros(<<>>, {<<>>}),
     Array1D(<<0, 1>>), Array1D(<<0>>),
     Zeros(<<1, 1, 2>>, {<<0, 0, 0>>, <<0, 0, 1>>}),
     Zeros(<<0, 0>>, {}), Zeros(<<0, 2>>, {}), Zeros(<<2, 0>>, {}), Zeros(<<1, 0>>, {})}

NonFiniteLevels == {NaN, PosInf, NegInf}

ValidateInit ==
    /\ dem \in MalformedDems \cup SmallDems
    /\ sea_level \in SmallLevels \cup NonFiniteLevels
    /\ bathtub_mask = None
    /\ connected_mask = None
    /\ coastal_edges = None
    /\ pc = "start"
    /\ wall_line = LineString(<<>>) /\ wall_height = 0 /\ modified_dem = None
    /\ buildings_gdf = None /\ flood_mask = None /\ flooded_count = None
    /\ CliIdle /\ GuiConstructed /\ FillIdle /\ VectorIdle

SpecValidate == ValidateInit /\ [][FloodNext]_vars

----------------------------------------------------------------------------
(* The harness of binary_flood_fill: one call on every pair of boolean     *)
(* arrays of at most two rows and two columns, of equal shapes or not,     *)
(* after the three functions above have run on a sample DEM.               *)

FillShapes == {<<1, 1>>, <<1, 2>>, <<2, 1>>, <<2, 2>>}

FillArrays ==
    UNION {{[shape |-> sh, data |-> f] : f \in [Cells(sh) -> BOOLEAN]} : sh \in FillShapes}

FillInit ==
    /\ fill_seeds \in FillArrays
    /\ fill_area \in FillArrays
    /\ filled_area = None
    /\ dem \in {sample_dem, sample_dem_high_edges}
    /\ sea_level \in {50, 250}
    /\ bathtub_mask = None
    /\ connected_mask = None
    /\ coastal_edges = None
    /\ pc = "start"
    /\ wall_line = LineString(<<>>) /\ wall_height = 0 /\ modified_dem = None
    /\ buildings_gdf = None /\ flood_mask = None /\ flooded_count = None
    /\ CliIdle /\ GuiConstructed /\ VectorIdle

BinaryFloodFill ==
    /\ pc = "done"
    /\ filled_area' = binary_flood_fill(fill_seeds, fill_area)
    /\ pc' = "filled"
    /\ UNCHANGED <<dem, sea_level, fill_seeds, fill_area, floodVars, wallVars, countVars,
                   guiVars, cliVars, vectorVars>>

FillNext == FloodNext \/ BinaryFloodFill

SpecFill == FillInit /\ [][FillNext]_vars

----------------------------------------------------------------------------
(* The harness of apply_sea_wall: one call on every wall within the bounds *)
(* over two of the sample DEMs.                                            *)

WallDems == {sample_dem_cf, sample_dem_high_edges}

WallPoints == (-1 .. MaxWallCoord) \X (-1 .. MaxWallCoord)

\* the LineStrings within the bounds, and the point lists too short to
\* make one
WallLines ==
    {LineString(c) : c \in {<<>>} \cup UNION {[1 .. n -> WallPoints] : n \in 2 .. MaxWallPoints}}
        \cup {PointList(c) : c \in {<<>>} \cup [1 .. 1 -> WallPoints]}

WallInit ==
    /\ dem \in WallDems
    /\ wall_line \in WallLines
    /\ wall_height \in 0 .. MaxWallHeight
    /\ modified_dem = None
    /\ pc = "start"
    /\ sea_level = 0
    /\ bathtub_mask = None /\ connected_mask = None /\ coastal_edges = None
    /\ buildings_gdf = None /\ flood_mask = None /\ flooded_count = None
    /\ CliIdle /\ GuiConstructed /\ FillIdle /\ VectorIdle

ApplySeaWall ==
    /\ pc = "start"
    /\ LET call == apply_sea_wall(dem, wall_line, wall_height)
       IN  /\ dem' = call.dem
           /\ modified_dem' = call.returned
    /\ pc' = "applied"
    /\ UNCHANGED <<sea_level, wall_line, wall_height, floodVars, countVars, guiVars, cliVars,
                   fillVars, vectorVars>>

WallNext == ApplySeaWall

SpecWall == WallInit /\ [][WallNext]_vars

----------------------------------------------------------------------------
(* The barrier scenario: a wall is applied to a grid and the connected     *)
(* flood of the walled grid is computed, as _run_analysis does, on every   *)
(* grid of three rows and columns with high corners, every wall of one     *)
(* segment within the bounds and every level.                              *)

BarrierDems ==
    {d \in SmallDems :
        /\ d.shape = <<3, 3>>
        /\ \A p \in {<<0, 0>>, <<0, 2>>, <<2, 0>>, <<2, 2>>} : d.data[p] = MaxElev}

BarrierWalls ==
    {LineString(<<p, q>>) : p \in (0 .. MaxWallCoord) \X (0 .. MaxWallCoord),
                            q \in (0 .. MaxWallCoord) \X (0 .. MaxWallCoord)}

BarrierInit ==
    /\ dem \in BarrierDems
    /\ wall_line \in BarrierWalls
    /\ wall_height \in 0 .. MaxWallHeight
    /\ sea_level \in SmallLevels
    /\ modified_dem = None
    /\ pc = "start"
    /\ bathtub_mask = None /\ connected_mask = None /\ coastal_edges = None
    /\ buildings_gdf = None /\ flood_mask = None /\ flooded_count = None
    /\ CliIdle /\ GuiConstructed /\ FillIdle /\ VectorIdle

\* connected_flood(dem_to_analyze, slr_value_meters), on the walled grid
FloodBehindWall ==
    /\ pc = "applied"
    /\ IsArray(modified_dem)
    /\ connected_mask' = connected_flood(modified_dem, sea_level)
    /\ pc' = "flooded"
    /\ UNCHANGED <<dem, sea_level, bathtub_mask, coastal_edges, wallVars, countVars,
                   guiVars, cliVars, fillVars, vectorVars>>

BarrierNext == ApplySeaWall \/ FloodBehindWall

SpecBarrier == BarrierInit /\ [][BarrierNext]_vars

----------------------------------------------------------------------------
(* The harness of count_flooded_buildings: one call on every building      *)
(* collection within the bounds, over every mask of one row or one column  *)
(* of two cells.                                                           *)

CountShapes == {<<1, 2>>, <<2, 1>>}

CountMasks ==
    UNION {{[shape |-> sh, data |-> f] : f \in [Cells(sh) -> BOOLEAN]} : sh \in CountShapes}

\* the tenths around every cell border from one cell before the grid to one
\* cell after it: k, k + 0.4, k + 0.5, k + 0.6 for k in -1..n
Tenths(n) == {10 * k + f : k \in -1 .. n, f \in {0, 4, 5, 6}}

\* centroid images along the first row and along the first column, and one
\* off both
Images(sh) ==
    {<<c, 0>> : c \in Tenths(sh[2])} \cup {<<0, r>> : r \in Tenths(sh[1])}
        \cup {<<-4, -4>>}

Geometries(sh) ==
    {[is_empty |-> FALSE, centroid |-> c] : c \in Images(sh)}
        \cup {[is_empty |-> TRUE, centroid |-> <<0, 0>>]}

CountInit ==
    /\ flood_mask \in CountMasks
    /\ buildings_gdf \in
            {None} \cup
            {[crs |-> crs, geometry |-> g] :
                crs \in {CRS(4326)},
                g \in UNION {[1 .. n -> Geometries(flood_mask.shape)] : n \in 0 .. MaxBuildings}}
            \cup
            {[crs |-> None, geometry |-> g] :
                g \in UNION {[1 .. n -> Geometries(flood_mask.shape)] : n \in 0 .. 1}}
    /\ flooded_count = None
    /\ pc = "start"
    /\ dem = None /\ sea_level = 0
    /\ bathtub_mask = None /\ connected_mask = None /\ coastal_edges = None
    /\ wall_line = LineString(<<>>) /\ wall_height = 0 /\ modified_dem = None
    /\ CliIdle /\ GuiConstructed /\ FillIdle /\ VectorIdle

CountFloodedBuildings ==
    /\ pc = "start"
    /\ flooded_count' = count_flooded_buildings(buildings_gdf, flood_mask)
    /\ pc' = "counted"
    /\ UNCHANGED <<dem, sea_level, buildings_gdf, flood_mask, floodVars, wallVars, guiVars, cliVars,
                   fillVars, vectorVars>>

CountNext == CountFloodedBuildings

SpecCount == CountInit /\ [][CountNext]_vars

----------------------------------------------------------------------------
(* Features and frames of the harnesses below.                             *)

\* a frame of the rows given, each a record of a value per column
Frame(crs, rows, columns) ==
    [c \in columns \cup {"crs"} |->
        IF c = "crs" THEN crs ELSE [k \in 1 .. Len(rows) |-> rows[k][c]]]

\* an OSM feature: its geometry, and its amenity tag if it has one
Feature(type, cells, centroid, amenity) ==
    [geometry |-> [type |-> type, is_empty |-> FALSE, centroid |-> centroid, cells |-> cells],
     amenity  |-> amenity]

\* a building on the first cell of the first row, its centroid in that cell
SmallBuilding(amenity) == Feature("Polygon", {<<0, 0>>}, <<5, 5>>, amenity)

\* a building along the first three cells of the first row, its centroid in
\* the second
LongBuilding(amenity) ==
    Feature("Polygon", {<<0, 0>>, <<0, 1>>, <<0, 2>>}, <<15, 5>>, amenity)

\* a building mapped as a node: a point, which shares no area with any cell
NodeBuilding(amenity) == Feature("Point", {}, <<5, 5>>, amenity)

\* every collection of at most n of the features listed, a feature any
\* number of times, its rows in the order of the list
Collections(features, n) ==
    {[i \in 1 .. Len(idx) |-> features[idx[i]]] :
        idx \in {x \in UNION {[1 .. k -> 1 .. Len(features)] : k \in 0 .. n} :
                    \A i \in 1 .. Len(x) - 1 : x[i] <= x[i + 1]}}

----------------------------------------------------------------------------
(* The harness of raster_to_vector_polygons and find_intersecting_features:*)
(* every boolean raster within the bounds is vectorized, and its polygons  *)
(* (with the crs of the raster set, as _run_analysis sets it) or None are   *)
(* intersected with a building frame, or with None.                        *)

VectorMasks ==
    UNION {{[shape |-> sh, data |-> f] : f \in [Cells(sh) -> BOOLEAN]} : sh \in Shapes}

VectorInfra ==
    {None} \cup
    {Frame(OsmCrs, rows, {"geometry", "amenity"}) :
        rows \in Collections(<<SmallBuilding("hospital"), LongBuilding(Missing)>>,
                              MaxBuildings)}

VectorInit ==
    /\ raster_array \in VectorMasks
    /\ infra_gdf \in VectorInfra
    /\ flood_polygons_gdf = None
    /\ intersecting_gdf = None
    /\ pc = "start"
    /\ dem = None /\ sea_level = 0
    /\ bathtub_mask = None /\ connected_mask = None /\ coastal_edges = None
    /\ wall_line = LineString(<<>>) /\ wall_height = 0 /\ modified_dem = None
    /\ buildings_gdf = None /\ flood_mask = None /\ flooded_count = None
    /\ CliIdle /\ GuiConstructed /\ FillIdle

RasterToVectorPolygons ==
    /\ pc = "start"
    /\ flood_polygons_gdf' = raster_to_vector_polygons(raster_array)
    /\ pc' = "vectorized"
    /\ UNCHANGED <<dem, sea_level, raster_array, infra_gdf, intersecting_gdf, floodVars,
                   wallVars, countVars, guiVars, cliVars, fillVars>>

FindIntersectingFeatures ==
    /\ pc = "vectorized"
    /\ \E given \in {set_crs(flood_polygons_gdf, DemCrs), None} :
            /\ flood_polygons_gdf' = given
            /\ intersecting_gdf' = find_intersecting_features(infra_gdf, given)
    /\ pc' = "intersected"
    /\ UNCHANGED <<dem, sea_level, raster_array, infra_gdf, floodVars, wallVars, countVars,
                   guiVars, cliVars, fillVars>>

VectorNext == RasterToVectorPolygons \/ FindIntersectingFeatures

SpecVector == VectorInit /\ [][VectorNext]_vars

----------------------------------------------------------------------------
(* The GUI: its handlers, run in any order on a constructed window.        *)

\* the raster the file dialog offers
GuiDems == {sample_dem_cf}

\* the cells a click on the map may fall in: two on the fourth row, one off
\* the grid
ClickPoints == {<<3, 1>>, <<3, 3>>, <<-1, -1>>}

WallHeightTexts == {"3.0", "1", "abc"}

\* slider positions, of its range 0..200 cm
SliderValues == {50, 200}

GuiInit ==
    /\ CliIdle /\ GuiConstructed /\ FillIdle /\ VectorIdle
    /\ dem = None /\ sea_level = 0 /\ pc = "gui"
    /\ bathtub_mask = None /\ connected_mask = None /\ coastal_edges = None
    /\ wall_line = LineString(<<>>) /\ wall_height = 0 /\ modified_dem = None
    /\ buildings_gdf = None /\ flood_mask = None /\ flooded_count = None

notGui == <<inputVars, floodVars, wallVars, countVars, fillVars, vectorVars, cliVars>>

\* _load_dem_via_dialog, the dialog offering the rasters given: one is read,
\* or reading it fails
LoadDem(rasters) ==
    /\ \/ \E d \in rasters :
            /\ dem_array' = d
            /\ loaded_dem' = d
            /\ canvas' = [shown |-> "dem"]
            /\ wall_was_applied' = FALSE
       \/ /\ dem_array' = None
          /\ loaded_dem' = None
          /\ wall_was_applied' = FALSE
          /\ UNCHANGED canvas
    /\ UNCHANGED <<is_drawing_wall, sea_wall_points, sea_wall_geometry,
                   wall_height_input, slr_slider, impactVars, notGui>>

LoadDemViaDialog == LoadDem(GuiDems)

\* the user edits the wall height field
EditWallHeight ==
    /\ \E text \in WallHeightTexts : wall_height_input' = text
    /\ UNCHANGED <<dem_array, is_drawing_wall, sea_wall_points, sea_wall_geometry,
                   slr_slider, canvas, loaded_dem, wall_was_applied, impactVars, notGui>>

\* the user moves the slider (_on_slr_slider_changed only updates a label)
MoveSlrSlider ==
    /\ \E v \in SliderValues : slr_slider' = v
    /\ UNCHANGED <<dem_array, is_drawing_wall, sea_wall_points, sea_wall_geometry,
                   wall_height_input, canvas, loaded_dem, wall_was_applied, impactVars,
                   notGui>>

\* the mutant: entering drawing mode keeps the wall drawn before
ToggleDrawingMode_keep_wall ==
    /\ is_drawing_wall' = ~is_drawing_wall
    /\ IF ~is_drawing_wall
       THEN UNCHANGED <<sea_wall_points, sea_wall_geometry>>
       ELSE IF Len(sea_wall_points) >= 2
       THEN /\ sea_wall_geometry' = LineString(sea_wall_points)
            /\ UNCHANGED sea_wall_points
       ELSE /\ sea_wall_points' = <<>>
            /\ UNCHANGED sea_wall_geometry
    /\ UNCHANGED <<dem_array, wall_height_input, slr_slider, canvas, loaded_dem,
                   wall_was_applied, impactVars, notGui>>

\* _toggle_drawing_mode
ToggleDrawingMode ==
    /\ is_drawing_wall' = ~is_drawing_wall
    /\ IF ~is_drawing_wall
       THEN /\ sea_wall_points' = <<>>
            /\ sea_wall_geometry' = None
       ELSE IF Len(sea_wall_points) >= 2
       THEN /\ sea_wall_geometry' = LineString(sea_wall_points)
            /\ UNCHANGED sea_wall_points
       ELSE /\ sea_wall_points' = <<>>
            /\ UNCHANGED sea_wall_geometry
    /\ UNCHANGED <<dem_array, wall_height_input, slr_slider, canvas, loaded_dem,
                   wall_was_applied, impactVars, notGui>>

\* _on_map_click: a click on the map (event.xdata and event.ydata given, here
\* as the cell they fall in) or beside it (both None)
OnMapClick ==
    /\ Len(sea_wall_points) < MaxWallPoints
    /\ \E event \in {[on_map |-> TRUE, cell |-> c] : c \in ClickPoints}
                        \cup {[on_map |-> FALSE, cell |-> <<0, 0>>]} :
            sea_wall_points' = IF is_drawing_wall /\ event.on_map
                               THEN Append(sea_wall_points, event.cell)
                               ELSE sea_wall_points
    /\ UNCHANGED <<dem_array, is_drawing_wall, sea_wall_geometry, wall_height_input,
                   slr_slider, canvas, loaded_dem, wall_was_applied, impactVars, notGui>>

\* _clear_sea_wall
ClearSeaWall ==
    /\ sea_wall_points' = <<>>
    /\ sea_wall_geometry' = None
    /\ UNCHANGED <<dem_array, is_drawing_wall, wall_height_input, slr_slider, canvas,
                   loaded_dem, wall_was_applied, impactVars, notGui>>

\* _run_analysis
RunAnalysis ==
    /\ IF dem_array = None
       THEN UNCHANGED <<dem_array, canvas, wall_was_applied, labelVars, analysis_raised>>
       ELSE LET run == RunAnalysisOn(dem_array, sea_wall_points, sea_wall_geometry,
                                     wall_height_input, slr_slider)
                labels == [buildings |-> flooded_buildings_label,
                           critical  |-> flooded_critical_label,
                           hospitals |-> flooded_hospitals_pct_label,
                           roads     |-> flooded_roads_label]
            IN  /\ dem_array' = run.dem_array
                /\ wall_was_applied' = (wall_was_applied \/ run.changed)
                /\ IF ~IsArray(run.flood_mask)
                   THEN /\ analysis_raised' = TRUE
                        /\ UNCHANGED <<canvas, labelVars>>
                   ELSE \E fault \in Faults :
                          LET after == ImpactStages(labels, run.flood_mask, buildings_gdf,
                                                    roads_gdf, fault)
                          IN  /\ flooded_buildings_label' = after.labels.buildings
                              /\ flooded_critical_label' = after.labels.critical
                              /\ flooded_hospitals_pct_label' = after.labels.hospitals
                              /\ flooded_roads_label' = after.labels.roads
                              /\ analysis_raised' = after.raised
                              /\ canvas' = IF after.plotted
                                           THEN [shown      |-> "flood",
                                                 flood_mask |-> run.flood_mask,
                                                 slr        |-> slr_slider,
                                                 walled     |-> run.walled,
                                                 loaded     |-> loaded_dem]
                                           ELSE canvas
    /\ UNCHANGED <<is_drawing_wall, sea_wall_points, sea_wall_geometry,
                   wall_height_input, slr_slider, loaded_dem, roads_gdf, notGui>>

GuiNext ==
    \/ LoadDemViaDialog
    \/ EditWallHeight
    \/ MoveSlrSlider
    \/ ToggleDrawingMode
    \/ OnMapClick
    \/ ClearSeaWall
    \/ RunAnalysis

SpecGui == GuiInit /\ [][GuiNext]_vars

----------------------------------------------------------------------------
(* The GUI with buildings and roads: a raster of one row of three cells is  *)
(* loaded, buildings and roads are fetched, and the analysis is run at the  *)
(* slider's first position, in any order.                                   *)

\* rasters that flood, at 0.5 m, in two separate cells, and in no cell
ImpactDems == {FromRows(<< <<0, 1, 0>> >>), FromRows(<< <<1, 1, 1>> >>)}

\* what a fetch of buildings may find, tagged with an amenity or not
BuildingFeatures ==
    <<SmallBuilding("hospital"), LongBuilding(Missing), NodeBuilding(Missing)>>

\* a road along the first two cells of the first row, its centroid between
\* them
Road == Feature("LineString", {<<0, 0>>, <<0, 1>>}, <<10, 5>>, Missing)

\* a crossing: a point, which shares no length with any cell
Crossing == Feature("Point", {}, <<25, 5>>, Missing)

RoadFeatures == <<Road, Crossing>>

\* a fetch finds at most MaxFetched buildings, and at most MaxRoads roads
MaxFetched == 1
MaxRoads == 1

\* _load_osm_buildings with valid coordinates typed in: the fetch raises, or
\* gives a frame that is then marked; drawing the raster under the
\* buildings raises when no raster is loaded, and the buildings are dropped
LoadOsmBuildings ==
    /\ \/ /\ buildings_gdf' = None
          /\ UNCHANGED canvas
       \/ \E rows \in Collections(BuildingFeatures, MaxFetched) :
            LET fetched == Frame(OsmCrs, rows, {"geometry", "amenity"})
                marked == mark_critical_infrastructure(fetched)
            IN  IF dem_array = None
                THEN /\ buildings_gdf' = None
                     /\ canvas' = [shown |-> "cleared"]
                ELSE /\ buildings_gdf' =
                            IF Len(marked.geometry) > 0 /\ marked.crs = None
                            THEN set_crs(marked, OsmCrs)
                            ELSE marked
                     /\ canvas' = [shown |-> "dem"]
    /\ UNCHANGED <<dem_array, is_drawing_wall, sea_wall_points, sea_wall_geometry,
                   wall_height_input, slr_slider, loaded_dem, wall_was_applied,
                   impactVars, inputVars, floodVars, wallVars, flood_mask, flooded_count,
                   fillVars, vectorVars, cliVars>>

\* _load_osm_roads, likewise, without the marking
LoadOsmRoads ==
    /\ \/ /\ roads_gdf' = None
          /\ UNCHANGED canvas
       \/ \E rows \in Collections(RoadFeatures, MaxRoads) :
            LET fetched == Frame(OsmCrs, rows, {"geometry"})
            IN  IF dem_array = None
                THEN /\ roads_gdf' = None
                     /\ canvas' = [shown |-> "cleared"]
                ELSE /\ roads_gdf' =
                            IF Len(fetched.geometry) > 0 /\ fetched.crs = None
                            THEN set_crs(fetched, OsmCrs)
                            ELSE fetched
                     /\ canvas' = [shown |-> "dem"]
    /\ UNCHANGED <<dem_array, is_drawing_wall, sea_wall_points, sea_wall_geometry,
                   wall_height_input, slr_slider, loaded_dem, wall_was_applied,
                   labelVars, analysis_raised, notGui>>

LoadImpactDem == LoadDem(ImpactDems)

ImpactNext ==
    \/ LoadImpactDem
    \/ LoadOsmBuildings
    \/ LoadOsmRoads
    \/ RunAnalysis

SpecImpact == GuiInit /\ [][ImpactNext]_vars

----------------------------------------------------------------------------
(* data_loader.py, visualization.py, run_cora.py                           *)
(*                                                                         *)
(* A path to a DEM is a record of what rasterio finds there: no file, a    *)
(* file that is no raster, or a raster.  An output path is a record of its *)
(* suffix and of whether its directory can be written to.                  *)

NoFile == [kind |-> "missing"]
NoRaster == [kind |-> "corrupt"]
Tif(array) == [kind |-> "tif", array |-> array]

\* load_dem: rasterio.open raises RasterioIOError on a path with no file
\* and on a file it cannot read; otherwise the first band, the transform
\* and the crs are returned, a tuple of three
load_dem(tif_path) ==
    IF tif_path.kind # "tif"
    THEN Raised("RasterioIOError")
    ELSE [returned |-> <<tif_path.array, [affine |-> CellMetres], DemCrs>>]

\* a, b = value: the tuple is unpacked into n names
Unpack(value, n) ==
    IF Len(value) # n THEN Raised("ValueError") ELSE [returned |-> value]

\* str.lower()
Lower(suffix) ==
    CASE suffix = ".PNG" -> ".png"
      [] OTHER -> suffix

\* export_flood_map_png, given an array and a string: ValueError unless
\* the path ends in .png; plt.savefig raises PermissionError where it may
\* not write; otherwise the map is written
export_flood_map_png(mask, output_filepath) ==
    IF ~IsArray(mask)
    THEN Raised("TypeError")
    ELSE IF Lower(output_filepath.suffix) # ".png"
    THEN Raised("ValueError")
    ELSE IF ~output_filepath.writable
    THEN Raised("PermissionError")
    ELSE [written |-> mask]

\* main's except clauses: the message printed for an exception
ErrorMessage(exception) ==
    CASE exception = "FileNotFoundError" -> "Error: DEM file not found"
      [] exception \in {"ImportError", "ModuleNotFoundError"} ->
            "Error: A required library is missing"
      [] exception = "RasterioIOError" -> "Error reading DEM file"
      [] exception = "TypeError" -> "Error: Invalid data type provided"
      [] OTHER -> "An unexpected error occurred"

\* the except clauses end in sys.exit(1)
ExitWithError(printed, exception) ==
    [stdout      |-> Append(printed, ErrorMessage(exception)),
     exit_status |-> 1,
     exported    |-> None]

\* main, from the parsed arguments on: what it printed, the status the
\* process ended with, and the map it wrote, if any
main(args) ==
    LET loaded == load_dem(args.dem_path)
        unpacked == IF "raised" \in DOMAIN loaded
                    THEN loaded
                    ELSE Unpack(loaded.returned, 2)
    IN  IF "raised" \in DOMAIN unpacked
        THEN ExitWithError(<<"1. Loading DEM">>, unpacked.raised)
        ELSE LET dem_data == unpacked.returned[1]
                 mask == bathtub_inundation(dem_data, args.sea_level)
                 export == export_flood_map_png(mask, args.output_path)
                 printed == <<"1. Loading DEM", "DEM loaded successfully",
                              "2. Calculating bathtub inundation", "Inundation calculated",
                              "3. Exporting flood map">>
             IN  IF "raised" \in DOMAIN export
                 THEN ExitWithError(printed, export.raised)
                 ELSE [stdout      |-> printed \o <<"Flood map saved", "Processing complete">>,
                       exit_status |-> 0,
                       exported    |-> export.written]

----------------------------------------------------------------------------
(* The command line, run once on every argument list within the bounds.    *)

CliDemPaths == {NoFile, NoRaster} \cup {Tif(d) : d \in SmallDems}

CliOutputPaths == [suffix : {".png", ".PNG", ".jpg"}, writable : BOOLEAN]

CliInit ==
    /\ cli_args \in [dem_path : CliDemPaths, sea_level : SmallLevels,
                      output_path : CliOutputPaths]
    /\ cli_result = None
    /\ pc = "start"
    /\ dem = None /\ sea_level = 0
    /\ bathtub_mask = None /\ connected_mask = None /\ coastal_edges = None
    /\ wall_line = LineString(<<>>) /\ wall_height = 0 /\ modified_dem = None
    /\ buildings_gdf = None /\ flood_mask = None /\ flooded_count = None
    /\ GuiConstructed /\ FillIdle /\ VectorIdle

\* python run_cora.py --dem_path ... --sea_level ... --output_path ...
Main ==
    /\ pc = "start"
    /\ cli_result' = main(cli_args)
    /\ pc' = "exited"
    /\ UNCHANGED <<dem, sea_level, cli_args, floodVars, wallVars, countVars, guiVars,
                   fillVars, vectorVars>>

CliNext == Main

SpecCli == CliInit /\ [][CliNext]_vars

----------------------------------------------------------------------------
(* Claims about the inundation engine and the edge seed detector.          *)

\* a cell of the first or last row, or of the first or last column
OnBoundary(shape, p) ==
    p[1] = 0 \/ p[1] = shape[1] - 1 \/ p[2] = 0 \/ p[2] = shape[2] - 1

\* the cells sharing an edge with p
EdgeNeighbours(shape, p) ==
    {<<p[1] - 1, p[2]>>, <<p[1] + 1, p[2]>>, <<p[1], p[2] - 1>>, <<p[1], p[2] + 1>>}
        \cap Cells(shape)

\* there is a walk from p, over cells not yet visited and at or below the
\* level, each sharing an edge with the one before, that ends on the boundary
RECURSIVE WalkToBoundary(_, _, _, _)
WalkToBoundary(d, level, p, visited) ==
    \/ OnBoundary(d.shape, p)
    \/ \E q \in EdgeNeighbours(d.shape, p) \ visited :
            /\ Leq(d.data[q], level)
            /\ WalkToBoundary(d, level, q, visited \cup {q})

HasPathToBoundary(d, level, p) ==
    Leq(d.data[p], level) /\ WalkToBoundary(d, level, p, {p})

MaxElevation(d) == CHOOSE m \in {d.data[p] : p \in DOMAIN d.data} :
                        \A p \in DOMAIN d.data : d.data[p] <= m

\* C1: every cell that connected_flood marks true is marked 1 by
\* bathtub_inundation on the same grid and level (connected is a subset of
\* bathtub).
C1_ConnectedSubsetOfBathtub ==
    (IsArray(bathtub_mask) /\ IsArray(connected_mask)) =>
        /\ connected_mask.shape = bathtub_mask.shape
        /\ \A p \in DOMAIN connected_mask.data :
                connected_mask.data[p] => bathtub_mask.data[p] = 1

\* both masks computed, some cell flooded in both, and some cell below the
\* level that the connected mask leaves dry
C1_Witness ==
    /\ IsArray(bathtub_mask) /\ IsArray(connected_mask)
    /\ \E p \in DOMAIN connected_mask.data : connected_mask.data[p]
    /\ \E p \in DOMAIN connected_mask.data :
            ~connected_mask.data[p] /\ bathtub_mask.data[p] = 1

C3_NoSeedAllFalse ==
    (IsArray(connected_mask)
        /\ \A p \in DOMAIN dem.data :
                OnBoundary(dem.shape, p) => ~Leq(dem.data[p], sea_level)) =>
        \A p \in DOMAIN connected_mask.data : ~connected_mask.data[p]

\* Scenario B has been run: the central 0 is below the level and dry
C3_Witness ==
    /\ IsArray(connected_mask)
    /\ dem = sample_dem_high_edges /\ sea_level = 100
    /\ Leq(dem.data[<<1, 1>>], sea_level)
    /\ \A p \in DOMAIN connected_mask.data : ~connected_mask.data[p]

\* C4: bathtub_inundation marks a cell 1 iff its elevation is <= the level
\* (equality included), and 0 otherwise; on the Scenario A grid at level 0.5
\* it marks the bottom row and the interior 0, and nothing else.
C4_BathtubThreshold ==
    IsArray(bathtub_mask) =>
        /\ bathtub_mask.shape = dem.shape
        /\ \A p \in DOMAIN dem.data :
                /\ bathtub_mask.data[p] \in {0, 1}
                /\ bathtub_mask.data[p] = 1 <=> 100 * dem.data[p] <= sea_level
        /\ (dem = sample_dem_cf /\ sea_level = 50) =>
                \A p \in DOMAIN dem.data :
                    bathtub_mask.data[p] = 1 <=> (p[1] = 4 \/ p = <<2, 2>>)

\* a cell at exactly the level has been marked flooded
C4_Witness ==
    /\ IsArray(bathtub_mask)
    /\ \E p \in DOMAIN dem.data :
            100 * dem.data[p] = sea_level /\ bathtub_mask.data[p] = 1
    /\ \E p \in DOMAIN dem.data : bathtub_mask.data[p] = 0

\* C5: on a non-empty grid, a level above the maximum elevation makes
\* connected_flood true at every cell.
C5_AboveMaxFloodsAll ==
    (IsArray(connected_mask) /\ sea_level > 100 * MaxElevation(dem)) =>
        /\ connected_mask.shape = dem.shape
        /\ \A p \in Cells(dem.shape) : connected_mask.data[p]

\* a grid with an interior cell has been flooded whole
C5_Witness ==
    /\ IsArray(connected_mask)
    /\ sea_level > 100 * MaxElevation(dem)
    /\ dem.shape = <<3, 3>>
    /\ connected_mask.data[<<1, 1>>]

\* C6: is_coastal_edge returns a boolean mask of the shape of dem, true at
\* (r, c) iff r is the first or last row or c the first or last column; so
\* all true for a single row or column, and false strictly inside.
C6_CoastalEdgeIsBoundary ==
    IsArray(coastal_edges) =>
        /\ coastal_edges.shape = dem.shape
        /\ DOMAIN coastal_edges.data = Cells(dem.shape)
        /\ \A p \in Cells(dem.shape) :
                /\ coastal_edges.data[p] \in BOOLEAN
                /\ coastal_edges.data[p] <=>
                        (p[1] = 0 \/ p[1] = dem.shape[1] - 1
                            \/ p[2] = 0 \/ p[2] = dem.shape[2] - 1)
        /\ (dem.shape[1] = 1 \/ dem.shape[2] = 1) =>
                \A p \in Cells(dem.shape) : coastal_edges.data[p]
        /\ (dem.shape[1] >= 3 /\ dem.shape[2] >= 3) =>
                \A p \in Cells(dem.shape) :
                    (0 < p[1] /\ p[1] < dem.shape[1] - 1
                        /\ 0 < p[2] /\ p[2] < dem.shape[2] - 1)
                    => ~coastal_edges.data[p]

\* the edge mask of a grid with an interior cell has been computed
C6_Witness ==
    /\ IsArray(coastal_edges)
    /\ dem.shape[1] >= 3 /\ dem.shape[2] >= 3
    /\ ~coastal_edges.data[<<1, 1>>]
    /\ coastal_edges.data[<<0, 0>>]

\* C20: binary_flood_fill fails with a shape-mismatch error (ValueError) and
\* returns no array whenever its two arrays differ in shape, and returns an
\* array of their shape otherwise; every mask returned by connected_flood
\* and by bathtub_inundation has exactly the shape of the grid given.
C20_ShapesAgree ==
    /\ pc = "filled" =>
            IF fill_seeds.shape # fill_area.shape
            THEN filled_area = Raised("ValueError")
            ELSE /\ IsArray(filled_area)
                 /\ filled_area.shape = fill_area.shape
                 /\ DOMAIN filled_area.data = Cells(fill_area.shape)
    /\ IsArray(bathtub_mask) =>
            /\ bathtub_mask.shape = dem.shape
            /\ DOMAIN bathtub_mask.data = Cells(dem.shape)
    /\ IsArray(connected_mask) =>
            /\ connected_mask.shape = dem.shape
            /\ DOMAIN connected_mask.data = Cells(dem.shape)

\* two arrays of as many cells and different shapes have been refused, after
\* both masks of the DEM were computed
C20_Witness ==
    /\ pc = "filled"
    /\ fill_seeds.shape = <<1, 2>> /\ fill_area.shape = <<2, 1>>
    /\ filled_area = Raised("ValueError")
    /\ IsArray(bathtub_mask) /\ IsArray(connected_mask)
    /\ connected_mask.shape = dem.shape

\* the grid is 2-dimensional and has no dimension of size 0
WellFormedGrid(d) == Len(d.shape) = 2 /\ d.shape[1] > 0 /\ d.shape[2] > 0

\* C15 (as claimed): connected_flood fails with an input error and returns no
\* mask whenever the grid is not 2-dimensional, or is empty, or the level is
\* NaN or infinite; it returns a mask only when the grid is 2-dimensional and
\* non-empty and the level finite.
C15_ConnectedFloodValidates ==
    pc \in {"connected", "done"} =>
        /\ IsArray(connected_mask) => (WellFormedGrid(dem) /\ IsFinite(sea_level))
        /\ ~(WellFormedGrid(dem) /\ IsFinite(sea_level)) =>
                "raised" \in DOMAIN connected_mask

\* the part of C15 the code keeps: a grid that is not 2-dimensional, or is
\* empty, makes connected_flood raise, whatever the level
C15_MalformedGridFails ==
    (pc \in {"connected", "done"} /\ ~WellFormedGrid(dem)) =>
        "raised" \in DOMAIN connected_mask

----------------------------------------------------------------------------
(* Claims about the sea-wall applicator.                                   *)

C9_NoOpWallReturnsCopy ==
    (pc = "applied"
        /\ (Len(wall_line.coords) < 2 \/ LineCells(wall_line) \cap Cells(dem.shape) = {})) =>
        /\ IsArray(modified_dem)
        /\ modified_dem = dem

\* the part of C9 the code keeps: a line of two or more points that burns no
\* cell of the grid is applied without an error and changes nothing
C9_OffGridWallReturnsCopy ==
    (pc = "applied"
        /\ wall_line.kind = "LineString" /\ Len(wall_line.coords) >= 2
        /\ LineCells(wall_line) \cap Cells(dem.shape) = {}) =>
        /\ IsArray(modified_dem)
        /\ modified_dem = dem

----------------------------------------------------------------------------
(* Claims about the point-in-mask test.                                    *)

\* t tenths rounded down to a whole cell index
Floor10(t) == t \div 10

\* the image lies inside the extent [0, cols) x [0, rows) of the mask
InExtent(image, shape) ==
    /\ 0 <= image[1] /\ image[1] < 10 * shape[2]
    /\ 0 <= image[2] /\ image[2] < 10 * shape[1]

\* the buildings the claim counts: those whose centroid's image lies inside
\* the extent, in a cell where the mask is true
FloodedByContainment(gdf, mask) ==
    {i \in 1 .. Len(gdf.geometry) :
        /\ ~gdf.geometry[i].is_empty
        /\ InExtent(gdf.geometry[i].centroid, mask.shape)
        /\ mask.data[<<Floor10(gdf.geometry[i].centroid[2]),
                       Floor10(gdf.geometry[i].centroid[1])>>]}

\* C10 (as claimed): the point test never raises on an out-of-range point,
\* reports a point flooded only if its image lies inside the extent
\* [0, cols) x [0, rows) and the mask is true at the cell containing it, and
\* gives every point inside the extent the mask value of its cell.
C10_PointTestByContainment ==
    (pc = "counted" /\ buildings_gdf # None /\ buildings_gdf.crs # None) =>
        /\ flooded_count \in Nat
        /\ flooded_count = Cardinality(FloodedByContainment(buildings_gdf, flood_mask))

\* what the code does keep: no exception and no count for an image a whole
\* half cell or more outside the extent
C10_FarOutsideNotFlooded ==
    (pc = "counted" /\ buildings_gdf # None /\ buildings_gdf.crs # None
        /\ \A i \in 1 .. Len(buildings_gdf.geometry) :
                LET c == buildings_gdf.geometry[i].centroid
                IN  \/ c[1] < -5 \/ c[1] > 10 * flood_mask.shape[2] - 5
                    \/ c[2] < -5 \/ c[2] > 10 * flood_mask.shape[1] - 5) =>
        flooded_count = 0

----------------------------------------------------------------------------
(* Claims about the vector functions.                                      *)

\* no row: the frame is empty
IsEmptyFrame(gdf) == "geometry" \in DOMAIN gdf /\ Len(gdf.geometry) = 0

\* C11 (as claimed): find_intersecting_features(a, b) returns an empty
\* feature collection, and raises nothing, whenever a is empty or None or b
\* is empty or None, whatever the other argument.
C11_EmptyOrAbsentGivesEmpty ==
    (pc = "intersected"
        /\ (\/ infra_gdf = None
            \/ flood_polygons_gdf = None
            \/ IsEmptyFrame(infra_gdf)
            \/ IsEmptyFrame(flood_polygons_gdf))) =>
        IsEmptyFrame(intersecting_gdf)

\* the part of C11 the code keeps: with a frame given as a, an empty a or
\* an empty or absent b gives an empty frame of a's columns
C11_EmptyGivesEmpty ==
    (pc = "intersected" /\ infra_gdf # None
        /\ (\/ flood_polygons_gdf = None
            \/ IsEmptyFrame(infra_gdf)
            \/ IsEmptyFrame(flood_polygons_gdf))) =>
        /\ IsEmptyFrame(intersecting_gdf)
        /\ Columns(intersecting_gdf) = Columns(infra_gdf)

\* there is a walk from p to q over cells of the set given, each sharing an
\* edge with the one before
RECURSIVE WalkWithin(_, _, _, _)
WalkWithin(cells, p, q, visited) ==
    \/ p = q
    \/ \E n \in cells \ visited :
            Adjacent4(p, n) /\ WalkWithin(cells, n, q, visited \cup {n})

\* C17: raster_to_vector_polygons returns no polygon for an all-false mask;
\* otherwise one polygon per maximal edge-connected region of true cells:
\* every true cell lies in exactly one polygon, no false cell in any, the
\* cells of a polygon are linked by edge-to-edge walks inside it, and no
\* two polygons share a cell or have cells sharing an edge.
C17_OnePolygonPerRegion ==
    pc = "vectorized" =>
        LET polygons == flood_polygons_gdf.geometry
            T == {p \in DOMAIN raster_array.data : raster_array.data[p]}
        IN  /\ (T = {}) <=> (Len(polygons) = 0)
            /\ \A k \in 1 .. Len(polygons) :
                    /\ polygons[k].cells # {}
                    /\ polygons[k].cells \subseteq T
                    /\ \A p \in polygons[k].cells, q \in polygons[k].cells :
                            WalkWithin(polygons[k].cells, p, q, {p})
            /\ \A p \in T : Cardinality({k \in 1 .. Len(polygons) : p \in polygons[k].cells}) = 1
            /\ \A k \in 1 .. Len(polygons), j \in 1 .. Len(polygons) :
                    k # j =>
                        /\ polygons[k].cells \cap polygons[j].cells = {}
                        /\ \A p \in polygons[k].cells, q \in polygons[j].cells :
                                ~Adjacent4(p, q)

\* a raster whose two true cells touch at a corner only has been vectorized
\* into two polygons
C17_Witness ==
    /\ pc = "vectorized"
    /\ raster_array.shape = <<2, 2>>
    /\ raster_array.data[<<0, 0>>] /\ raster_array.data[<<1, 1>>]
    /\ ~raster_array.data[<<0, 1>>] /\ ~raster_array.data[<<1, 0>>]
    /\ Len(flood_polygons_gdf.geometry) = 2

----------------------------------------------------------------------------
(* Claims about the GUI's use of the sea-wall applicator.                  *)

\* C8: apply_sea_wall never modifies the array it is given, so through any
\* sequence of analyses self.dem_array stays the raster that was loaded, and
\* an analysis run with no wall (after Clear Sea Wall, too) shows the flood
\* mask of the raster as loaded.
C8_LoadedDemNeverModified ==
    /\ dem_array # None => dem_array = loaded_dem
    /\ (canvas.shown = "flood" /\ ~canvas.walled) =>
            canvas.flood_mask = connected_flood(canvas.loaded, canvas.slr)

\* a wall that changed the grid has been analysed, the wall cleared, the
\* analysis run again: the interior that the wall kept dry is flooded again
C8_Witness ==
    /\ wall_was_applied
    /\ sea_wall_geometry = None /\ sea_wall_points = <<>> /\ ~is_drawing_wall
    /\ canvas.shown = "flood" /\ ~canvas.walled
    /\ canvas.loaded = loaded_dem
    /\ canvas.flood_mask.data[<<2, 2>>]
    /\ ~connected_flood(apply_sea_wall(loaded_dem,
                LineString(<< <<3, 1>>, <<3, 3>> >>), 3).returned,
            canvas.slr).data[<<2, 2>>]

\* the GUI's part of C9, which the code keeps: with fewer than two points
\* drawn no wall is stored, and the analysis shown for no wall is that of
\* the raster as loaded
C9_GuiShortWallIsNoWall ==
    /\ Len(sea_wall_points) < 2 => sea_wall_geometry = None
    /\ (canvas.shown = "flood" /\ ~canvas.walled) =>
            canvas.flood_mask = connected_flood(canvas.loaded, canvas.slr)

----------------------------------------------------------------------------
(* Claims about the impact figures of an analysis.                         *)

\* a step of _run_analysis on a loaded raster
AnalysisRun ==
    /\ dem_array # None
    /\ UNCHANGED <<buildings_gdf, roads_gdf, loaded_dem>>
    /\ canvas' = canvas \/ canvas'.shown = "flood"
    /\ RunAnalysis

\* one that reached its end
CompletedRun == ~analysis_raised' /\ AnalysisRun

\* one that ended in its except
RaisedRun == analysis_raised' /\ AnalysisRun

\* the cells a mask floods
FloodedCells(mask) == {p \in DOMAIN mask.data : mask.data[p]}

\* the frame's buildings with a footprint
PolygonBuildings(buildings) ==
    IF buildings = None
    THEN {}
    ELSE {i \in 1 .. Len(buildings.geometry) :
            buildings.geometry[i].type \in {"Polygon", "MultiPolygon"}}

\* those of them whose footprint shares area with the flooded cells
IntersectingBuildings(buildings, mask) ==
    {i \in PolygonBuildings(buildings) :
        buildings.geometry[i].cells \cap FloodedCells(mask) # {}}

\* the frame's rows tagged as hospitals
Hospitals(buildings) ==
    IF buildings = None
    THEN {}
    ELSE {i \in 1 .. Len(buildings.geometry) : buildings.amenity[i] = "hospital"}

\* C12, as claimed: an analysis that completes on buildings none of which
\* is a hospital leaves the hospital label at "0/0 (0.0%)".
C12_ZeroHospitalsReported ==
    [][(CompletedRun /\ buildings_gdf # None /\ Hospitals(buildings_gdf) = {}) =>
            flooded_hospitals_pct_label' = ZeroHospitalsText]_vars

\* what the code keeps of C12: the zero ratio is reported when some
\* building has a footprint and none is a hospital
C12_ZeroHospitalsAmongFootprints ==
    [][(CompletedRun /\ Hospitals(buildings_gdf) = {}
            /\ PolygonBuildings(buildings_gdf) # {}) =>
            flooded_hospitals_pct_label' = ZeroHospitalsText]_vars

\* C13, as claimed: the flooded building count of a completed analysis is
\* the number of buildings whose footprint intersects the flood extent,
\* each counted once however many flood polygons it overlaps.
C13_EachBuildingCountedOnce ==
    [][(CompletedRun /\ PolygonBuildings(buildings_gdf) # {}) =>
            flooded_buildings_label' =
                CountText(Cardinality(IntersectingBuildings(buildings_gdf,
                                                            canvas'.flood_mask)))]_vars

C16_RaisedRunChangesNothing ==
    [][RaisedRun => UNCHANGED <<labelVars, canvas>>]_vars

\* what the code keeps of C16: the raster, the buildings, the roads and the
\* wall are as they were, and the map is not redrawn
C16_RaisedRunKeepsInputsAndMap ==
    [][RaisedRun => UNCHANGED <<dem_array, buildings_gdf, roads_gdf, sea_wall_geometry,
                               sea_wall_points, canvas>>]_vars

\* C18, as claimed: a building whose centroid lies in no flooded cell is not
\* counted by the analysis, whatever its footprint overlaps.
C18_CentroidDecidesAnalysisCount ==
    [][(CompletedRun /\ PolygonBuildings(buildings_gdf) # {}) =>
            flooded_buildings_label'.count <=
                Cardinality(FloodedByContainment(
                    SelectRows(buildings_gdf,
                               RowsOfType(buildings_gdf, {"Polygon", "MultiPolygon"})),
                    canvas'.flood_mask))]_vars

\* the roads with a length
LineRoads(roads) ==
    IF roads = None
    THEN {}
    ELSE {i \in 1 .. Len(roads.geometry) :
            roads.geometry[i].type \in {"LineString", "MultiLineString"}}

----------------------------------------------------------------------------
(* Claims about the drawing of the sea wall.                               *)

\* C21: through any sequence of GUI events, a stored wall geometry means
\* that drawing mode is off, that at least 2 points are stored and that
\* the geometry is the polyline of exactly those points; the point list
\* grows only while drawing mode is on; entering drawing mode discards the
\* wall; and an analysis run while drawing mode is on applies no wall.
C21_WallDrawingConsistent ==
    /\ [](sea_wall_geometry # None =>
            /\ ~is_drawing_wall
            /\ Len(sea_wall_points) >= 2
            /\ sea_wall_geometry = LineString(sea_wall_points))
    /\ [](is_drawing_wall /\ dem_array # None =>
            LET run == RunAnalysisOn(dem_array, sea_wall_points, sea_wall_geometry,
                                     wall_height_input, slr_slider)
            IN  ~run.walled /\ run.flood_mask = connected_flood(dem_array, slr_slider))
    /\ [][Len(sea_wall_points') > Len(sea_wall_points) =>
            /\ is_drawing_wall /\ is_drawing_wall'
            /\ Len(sea_wall_points') = Len(sea_wall_points) + 1
            /\ SubSeq(sea_wall_points', 1, Len(sea_wall_points)) = sea_wall_points]_vars
    /\ [][(~is_drawing_wall /\ is_drawing_wall') =>
            sea_wall_geometry' = None /\ sea_wall_points' = <<>>]_vars

\* a wall of two points was drawn and finished, and the analysis shown was
\* run with it
C21_Witness ==
    /\ ~is_drawing_wall
    /\ Len(sea_wall_points) = 2
    /\ sea_wall_geometry = LineString(sea_wall_points)
    /\ canvas.shown = "flood" /\ canvas.walled

----------------------------------------------------------------------------
(* Claims about the flood behind a wall and under a rising level.          *)

\* C22: a wall never enlarges the connected flood: every cell flooded on
\* the grid that apply_sea_wall returns is flooded, at the same level, on
\* the grid it was given.
C22_WallNeverEnlargesFlood ==
    pc = "flooded" =>
        LET unwalled == connected_flood(dem, sea_level)
        IN  /\ connected_mask.shape = unwalled.shape
            /\ \A p \in DOMAIN connected_mask.data :
                    connected_mask.data[p] => unwalled.data[p]

\* a wall over the only low edge cell keeps the centre dry, which floods
\* without the wall
C22_Witness ==
    /\ pc = "flooded"
    /\ <<0, 1>> \in LineCells(wall_line)
    /\ <<1, 1>> \notin LineCells(wall_line)
    /\ connected_flood(dem, sea_level).data[<<1, 1>>]
    /\ ~connected_mask.data[<<1, 1>>]

\* C23: the flood is monotone in the water level: every cell that
\* bathtub_inundation marks, and every cell that connected_flood floods, at
\* a level is marked, or flooded, at every higher level.
C23_MonotoneInLevel ==
    pc \in {"connected", "done"} =>
        \A higher \in {level \in SmallLevels \cup SampleLevels : sea_level <= level} :
            /\ \A p \in DOMAIN bathtub_mask.data :
                    bathtub_mask.data[p] = 1 => bathtub_inundation(dem, higher).data[p] = 1
            /\ \A p \in DOMAIN connected_mask.data :
                    connected_mask.data[p] => connected_flood(dem, higher).data[p]

\* the flood of test_dem_cf at 0.5 m is that of its low border; at 2.0 m
\* the cells behind it are flooded as well
C23_Witness ==
    /\ pc \in {"connected", "done"}
    /\ dem = sample_dem_cf /\ sea_level = 50
    /\ \E p \in DOMAIN connected_mask.data :
            /\ connected_mask.data[p]
            /\ bathtub_mask.data[p] = 1
    /\ \E p \in DOMAIN connected_mask.data :
            /\ ~connected_mask.data[p]
            /\ bathtub_mask.data[p] = 0
            /\ connected_flood(dem, 200).data[p]
            /\ bathtub_inundation(dem, 200).data[p] = 1

----------------------------------------------------------------------------
(* Claims about the bounds of the impact figures.                          *)

\* C24, as claimed: in the report of a completed analysis the number of
\* flooded hospitals is at most the total number of hospitals (at most
\* 100%), and the flooded building count is at most the number of
\* buildings with a footprint that were supplied.
C24_CountsWithinTotals ==
    [][(CompletedRun /\ PolygonBuildings(buildings_gdf) # {}) =>
            /\ flooded_buildings_label'.count <= Cardinality(PolygonBuildings(buildings_gdf))
            /\ "total" \in DOMAIN flooded_hospitals_pct_label' =>
                    /\ flooded_hospitals_pct_label'.flooded <= flooded_hospitals_pct_label'.total
                    /\ flooded_hospitals_pct_label'.pct <= 1000]_vars

----------------------------------------------------------------------------
(* Claims about the command line.                                          *)

\* the DEM file loads and the output path is one a PNG can be written to
CliInputsValid(args) ==
    /\ args.dem_path.kind = "tif"
    /\ Lower(args.output_path.suffix) = ".png"
    /\ args.output_path.writable

\* C25, as claimed: given a DEM file that loads and an output path ending
\* in .png, main loads the DEM, computes the bathtub inundation and exports
\* the PNG, in that order, and ends normally after "Processing complete";
\* it exits with status 1 only when a step fails, and then exports no map.
C25_CliCompletesOnValidInput ==
    pc = "exited" =>
        /\ CliInputsValid(cli_args) =>
                /\ cli_result.exit_status = 0
                /\ cli_result.stdout =
                        <<"1. Loading DEM", "DEM loaded successfully",
                          "2. Calculating bathtub inundation", "Inundation calculated",
                          "3. Exporting flood map", "Flood map saved", "Processing complete">>
                /\ cli_result.exported =
                        bathtub_inundation(cli_args.dem_path.array, cli_args.sea_level)
        /\ cli_result.exit_status = 1 =>
                /\ ~CliInputsValid(cli_args)
                /\ cli_result.exported = None

\* what the code keeps of C25: a run that exits with status 1 has exported
\* no map, and a run on a missing or unreadable DEM or to a path that is
\* no writable .png exits with status 1
C25_FailureExitsWithoutExport ==
    pc = "exited" =>
        /\ cli_result.exit_status = 1 => cli_result.exported = None
        /\ ~CliInputsValid(cli_args) => cli_result.exit_status = 1

====
